---- MODULE Spec2Model ----
(***************************************************************************)
(* A model of the pychain ledger engine: Transaction, Block and Blockchain *)
(* (src/pychain/transaction.py, block.py, blockchain.py).                  *)
(*                                                                         *)
(* Python strings are sequences of tokens: every decimal digit and every   *)
(* punctuation mark is a token of its own, an address name is one token.   *)
(* String concatenation is \o.  SHA-256 is a collision-free digest: the    *)
(* hex digest of s is a run of leading "0" tokens, a "#" token and s.      *)
(***************************************************************************)
EXTENDS Integers, Sequences, FiniteSets, TLC

(* ------------------------------ bounds -------------------------------- *)
MaxChain == 3
MaxPool == 2
MaxLeadingZeros == 9
MaxThreads == 2

(* ------------------------------ inputs -------------------------------- *)
\* the (sender, receiver, amount) arguments of create_transaction
TransactionArgs == {<<"System", "Alice", -1>>, <<"Alice", "Bob", 2>>,
                    <<"Alice", "Bob", -1>>, <<"Alice", "Alice", 2>>}
Senders == {t[1] : t \in TransactionArgs}
Receivers == {t[2] : t \in TransactionArgs}
MinerAddresses == {"", "System", "Bob"}
AllAddresses == Senders \cup Receivers \cup MinerAddresses \cup {"Genesis", "Miner1"}
DifficultyArgs == {0, 1, 8}
AdjustmentIntervals == {1, 2}
TargetBlockTimes == {1}
\* seconds that can pass between the creation of two consecutive blocks
BlockTimes == {0, 1, 2}
InitialBalanceArgs == {[a \in {"Alice"} |-> 2]}

(* Python values used as legacy payloads: the int 1, the str "1", the     *)
(* tuple (1, 2) and the list [1, 2].  text is the digits or characters of *)
(* a scalar and the rendered items of a container.                        *)
PyInt1 == [type |-> "int", text |-> <<"1">>]
PyStr1 == [type |-> "str", text |-> <<"1">>]
PyTuple12 == [type |-> "tuple", text |-> <<"1", ",", " ", "2">>]
PyList12 == [type |-> "list", text |-> <<"1", ",", " ", "2">>]
PyStrTuple12 == [type |-> "str", text |-> <<"(", "1", ",", " ", "2", ")">>]
LegacyValues == {PyInt1, PyTuple12}
\* what an outside writer may put in place of a block's attributes
TamperValues == {PyInt1, PyStr1, PyTuple12, PyList12, PyStrTuple12}
TamperAmounts == {0, 5}
ForgedHash(d) == [i \in 1..(d + 2) |-> IF i <= d THEN "0" ELSE IF i = d + 1 THEN "#" ELSE "forged"]

(* ------------------------- strings and digests ------------------------ *)
Min(a, b) == IF a < b THEN a ELSE b
Max(a, b) == IF a > b THEN a ELSE b

Digits == <<"0", "1", "2", "3", "4", "5", "6", "7", "8", "9">>

RECURSIVE IntStr(_)
\* str(n) for a Python int
IntStr(n) ==
  IF n < 0 THEN <<"-">> \o IntStr(0 - n)
  ELSE IF n < 10 THEN <<Digits[n + 1]>>
  ELSE IntStr(n \div 10) \o <<Digits[(n % 10) + 1]>>

\* "0" * n  (the empty string when n <= 0)
Zeros(n) == [i \in 1..Max(n, 0) |-> "0"]

\* s[:n] on a Python string
Prefix(s, n) ==
  IF n >= 0 THEN SubSeq(s, 1, Min(n, Len(s)))
  ELSE SubSeq(s, 1, Max(Len(s) + n, 0))

TokCode(t) == IF \E d \in 1..10 : Digits[d] = t
              THEN (CHOOSE d \in 1..10 : Digits[d] = t) - 1
              ELSE 1

\* the number of leading zero hex digits of sha256(s): a fixed
\* pseudo-random function of the digested string
LeadingZeros(s) ==
  IF s = <<>> THEN 0
  ELSE (Len(s) + TokCode(s[1]) + TokCode(s[Len(s)])) % (MaxLeadingZeros + 1)

\* hashlib.sha256(s.encode()).hexdigest()
HexDigest(s) == Zeros(LeadingZeros(s)) \o <<"#">> \o s

(* ----------------------------- Transaction ---------------------------- *)
\* mutant of Transaction.calculate_hash: the amount is left out of the string
Transaction_calculate_hash_no_amount(tx) ==
  HexDigest(<<tx.sender>> \o <<tx.receiver>> \o IntStr(tx.timestamp))

\* Transaction.calculate_hash
Transaction_calculate_hash(tx) ==
  HexDigest(<<tx.sender>> \o <<tx.receiver>> \o IntStr(tx.amount) \o IntStr(tx.timestamp))

\* Transaction.__init__: the exception it raises, or "ok"
Transaction_init_exc(sender, receiver, amount) ==
  IF amount <= 0 /\ sender # "System" THEN "ValidationError"
  ELSE IF sender = receiver THEN "InvalidTransactionError"
  ELSE "ok"

\* Transaction.__init__: the object it builds when it does not raise
Transaction_init(sender, receiver, amount, timestamp) ==
  LET t == [sender |-> sender, receiver |-> receiver, amount |-> amount,
            timestamp |-> timestamp, transaction_id |-> <<>>]
  IN [t EXCEPT !.transaction_id = Transaction_calculate_hash(t)]

\* Transaction.is_valid (the boolean of the returned pair)
Transaction_is_valid(tx) ==
  IF tx.sender = tx.receiver THEN FALSE
  ELSE IF tx.amount <= 0 /\ tx.sender # "System" THEN FALSE
  ELSE TRUE

\* json.dumps(tx.to_dict(), sort_keys=True)
Transaction_to_dict(tx) ==
  <<"{", "amount:">> \o IntStr(tx.amount)
  \o <<",", "receiver:", tx.receiver, ",", "sender:", tx.sender, ",", "timestamp:">>
  \o IntStr(tx.timestamp)
  \o <<",", "transaction_id:">> \o tx.transaction_id \o <<"}">>

(* -------------------------------- Block ------------------------------- *)
\* An optional attribute is <<>> for None and <<v>> for the value v.
None == <<>>
Some(v) == <<v>>

RECURSIVE JsonTxList(_)
JsonTxList(txs) ==
  IF txs = <<>> THEN <<>>
  ELSE IF Len(txs) = 1 THEN Transaction_to_dict(txs[1])
  ELSE Transaction_to_dict(txs[1]) \o <<",">> \o JsonTxList(Tail(txs))

\* the data_string of Block.calculate_hash for a legacy payload
LegacyString(v) ==
  IF v.type = "list" THEN <<"[">> \o v.text \o <<"]">>
  ELSE IF v.type = "tuple" THEN <<"(">> \o v.text \o <<")">>
  ELSE v.text

\* Block.calculate_hash
Block_calculate_hash(b) ==
  LET data_string == IF b.transactions # None
                     THEN <<"[">> \o JsonTxList(b.transactions[1]) \o <<"]">>
                     ELSE IF b.data = None THEN <<"None">>
                     ELSE LegacyString(b.data[1])
  IN HexDigest(IntStr(b.index) \o IntStr(b.timestamp) \o data_string
               \o b.previous_hash \o IntStr(b.nonce))

\* Block.__init__ with a list of Transaction objects
Block_init_transactions(index, timestamp, txs, previous_hash, difficulty) ==
  LET b == [index |-> index, timestamp |-> timestamp, transactions |-> Some(txs),
            data |-> None, previous_hash |-> previous_hash,
            difficulty |-> difficulty, nonce |-> 0, hash |-> <<>>]
  IN [b EXCEPT !.hash = Block_calculate_hash(b)]

\* Block.__init__ with any other payload (None, or Some(v) for the value v)
Block_init_legacy(index, timestamp, data, previous_hash, difficulty) ==
  LET b == [index |-> index, timestamp |-> timestamp, transactions |-> None,
            data |-> data, previous_hash |-> previous_hash,
            difficulty |-> difficulty, nonce |-> 0, hash |-> <<>>]
  IN [b EXCEPT !.hash = Block_calculate_hash(b)]

\* the loop of mine_block ends only if some digest has that many zeros
MiningTerminates(difficulty) == difficulty >= 0 /\ difficulty <= MaxLeadingZeros

RECURSIVE Block_mine_block_stale(_)
\* mutant of Block_mine_block: the nonce is incremented once more after the
\* last hash was computed
Block_mine_block_stale(b) ==
  IF Prefix(b.hash, b.difficulty) # Zeros(b.difficulty)
  THEN LET n == [b EXCEPT !.nonce = b.nonce + 1]
       IN Block_mine_block_stale([n EXCEPT !.hash = Block_calculate_hash(n)])
  ELSE [b EXCEPT !.nonce = b.nonce + 1]

\* mutant of Block_mine_block: a single attempt instead of the loop
Block_mine_block_once(b) ==
  IF Prefix(b.hash, b.difficulty) # Zeros(b.difficulty)
  THEN LET n == [b EXCEPT !.nonce = b.nonce + 1]
       IN [n EXCEPT !.hash = Block_calculate_hash(n)]
  ELSE b

\* mutant of Block.mine_block: the nonce is incremented once before the
\* target is tested, and once more if the target is missed
Block_mine_block_increment_first(b) ==
  LET n == [b EXCEPT !.nonce = b.nonce + 1]
  IN Block_mine_block_once([n EXCEPT !.hash = Block_calculate_hash(n)])

RECURSIVE Block_mine_block(_)
\* Block.mine_block: the block when the loop has ended
Block_mine_block(b) ==
  IF Prefix(b.hash, b.difficulty) # Zeros(b.difficulty)
  THEN LET n == [b EXCEPT !.nonce = b.nonce + 1]
       IN Block_mine_block([n EXCEPT !.hash = Block_calculate_hash(n)])
  ELSE b

(* ------------------------------ Blockchain ---------------------------- *)
VARIABLES chain, difficulty, target_block_time, adjustment_interval,
          pending_transactions, mining_reward, initial_balances,
          result, document, tampered, calls

vars == <<chain, difficulty, target_block_time, adjustment_interval,
          pending_transactions, mining_reward, initial_balances,
          result, document, tampered, calls>>

\* the threads that call the ledger
Threads == 1..MaxThreads

\* calls.running[th] is the Transaction or the Block that thread th has built
\* and not yet appended to the pool or the chain, None if it holds none;
\* calls.serialized tells whether the callers take turns
NoCalls == [serialized |-> TRUE, running |-> [th \in Threads |-> None]]

\* the Blockchain object held by the caller
self == [chain |-> chain, difficulty |-> difficulty,
         target_block_time |-> target_block_time,
         adjustment_interval |-> adjustment_interval,
         pending_transactions |-> pending_transactions,
         mining_reward |-> mining_reward,
         initial_balances |-> initial_balances]

\* dict.get(address, 0)
DictGet(d, address) == IF address \in DOMAIN d THEN d[address] ELSE 0

\* mutant of create_genesis_block: the block is returned without mining
create_genesis_block_unmined(d, time) ==
  Block_init_transactions(0, time, <<Transaction_init("System", "Genesis", 0, time)>>,
                          <<"0">>, d)

\* Blockchain.create_genesis_block
create_genesis_block(d, time) ==
  Block_mine_block(Block_init_transactions(
      0, time, <<Transaction_init("System", "Genesis", 0, time)>>, <<"0">>, d))

\* mutant of get_latest_block: the first block instead of the last
get_latest_block_first(bc) == bc.chain[1]

\* Blockchain.get_latest_block
get_latest_block(bc) == bc.chain[Len(bc.chain)]

RECURSIVE SumSeq(_)
SumSeq(s) == IF s = <<>> THEN 0 ELSE Head(s) + SumSeq(Tail(s))

\* mutant of adjust_difficulty: fast mining keeps the difficulty
adjust_difficulty_no_increase(bc) ==
  LET n == Len(bc.chain)
      k == bc.adjustment_interval
      recent_blocks == SubSeq(bc.chain, n - k + 1, n)
      block_times == [i \in 1..(k - 1) |->
                        recent_blocks[i + 1].timestamp - recent_blocks[i].timestamp]
      total == SumSeq(block_times)
      scaled == Len(block_times) * bc.target_block_time
  IN IF k = 0 THEN [exc |-> "ZeroDivisionError", val |-> bc.difficulty]
     ELSE IF n % k # 0 THEN [exc |-> "ok", val |-> bc.difficulty]
     ELSE IF n < k THEN [exc |-> "ok", val |-> bc.difficulty]
     ELSE IF Len(block_times) = 0 \/ bc.target_block_time = 0
       THEN [exc |-> "ZeroDivisionError", val |-> bc.difficulty]
     ELSE IF 2 * total > 3 * scaled
       THEN [exc |-> "ok", val |-> Max(1, bc.difficulty - 1)]
     ELSE [exc |-> "ok", val |-> bc.difficulty]

\* mutant of adjust_difficulty: fast mining raises the difficulty by two
adjust_difficulty_double_step(bc) ==
  LET n == Len(bc.chain)
      k == bc.adjustment_interval
      recent_blocks == SubSeq(bc.chain, n - k + 1, n)
      block_times == [i \in 1..(k - 1) |->
                        recent_blocks[i + 1].timestamp - recent_blocks[i].timestamp]
      total == SumSeq(block_times)
      scaled == Len(block_times) * bc.target_block_time
  IN IF k = 0 THEN [exc |-> "ZeroDivisionError", val |-> bc.difficulty]
     ELSE IF n % k # 0 THEN [exc |-> "ok", val |-> bc.difficulty]
     ELSE IF n < k THEN [exc |-> "ok", val |-> bc.difficulty]
     ELSE IF Len(block_times) = 0 \/ bc.target_block_time = 0
       THEN [exc |-> "ZeroDivisionError", val |-> bc.difficulty]
     ELSE IF 4 * total < 3 * scaled
       THEN [exc |-> "ok", val |-> Min(8, bc.difficulty + 2)]
     ELSE IF 2 * total > 3 * scaled
       THEN [exc |-> "ok", val |-> Max(1, bc.difficulty - 1)]
     ELSE [exc |-> "ok", val |-> bc.difficulty]

\* mutant of adjust_difficulty: a factor of exactly 0.75 counts as too fast
adjust_difficulty_inclusive(bc) ==
  LET n == Len(bc.chain)
      k == bc.adjustment_interval
      recent_blocks == SubSeq(bc.chain, n - k + 1, n)
      block_times == [i \in 1..(k - 1) |->
                        recent_blocks[i + 1].timestamp - recent_blocks[i].timestamp]
      total == SumSeq(block_times)
      scaled == Len(block_times) * bc.target_block_time
  IN IF k = 0 THEN [exc |-> "ZeroDivisionError", val |-> bc.difficulty]
     ELSE IF n % k # 0 THEN [exc |-> "ok", val |-> bc.difficulty]
     ELSE IF n < k THEN [exc |-> "ok", val |-> bc.difficulty]
     ELSE IF Len(block_times) = 0 \/ bc.target_block_time = 0
       THEN [exc |-> "ZeroDivisionError", val |-> bc.difficulty]
     ELSE IF 4 * total <= 3 * scaled
       THEN [exc |-> "ok", val |-> Min(8, bc.difficulty + 1)]
     ELSE IF 2 * total > 3 * scaled
       THEN [exc |-> "ok", val |-> Max(1, bc.difficulty - 1)]
     ELSE [exc |-> "ok", val |-> bc.difficulty]

\* Blockchain.adjust_difficulty: exc is the exception raised, or "ok" with
\* the returned difficulty in val.  avg / target < 0.75 and > 1.5 are
\* compared without division (target > 0).
adjust_difficulty(bc) ==
  LET n == Len(bc.chain)
      k == bc.adjustment_interval
      recent_blocks == SubSeq(bc.chain, n - k + 1, n)
      block_times == [i \in 1..(k - 1) |->
                        recent_blocks[i + 1].timestamp - recent_blocks[i].timestamp]
      total == SumSeq(block_times)
      scaled == Len(block_times) * bc.target_block_time
  IN IF k = 0 THEN [exc |-> "ZeroDivisionError", val |-> bc.difficulty]
     ELSE IF n % k # 0 THEN [exc |-> "ok", val |-> bc.difficulty]
     ELSE IF n < k THEN [exc |-> "ok", val |-> bc.difficulty]
     ELSE IF Len(block_times) = 0 \/ bc.target_block_time = 0
       THEN [exc |-> "ZeroDivisionError", val |-> bc.difficulty]
     ELSE IF 4 * total < 3 * scaled
       THEN [exc |-> "ok", val |-> Min(8, bc.difficulty + 1)]
     ELSE IF 2 * total > 3 * scaled
       THEN [exc |-> "ok", val |-> Max(1, bc.difficulty - 1)]
     ELSE [exc |-> "ok", val |-> bc.difficulty]

RECURSIVE TxFold_nocredit(_, _, _)
\* mutant of TxFold: the amount received is never added
TxFold_nocredit(balance, txs, address) ==
  IF txs = <<>> THEN balance
  ELSE LET t == Head(txs)
       IN TxFold_nocredit(IF t.sender = address THEN balance - t.amount ELSE balance,
                          Tail(txs), address)

RECURSIVE TxFold(_, _, _)
\* the inner loop of get_balance over one list of transactions
TxFold(balance, txs, address) ==
  IF txs = <<>> THEN balance
  ELSE LET t == Head(txs)
           b1 == IF t.sender = address THEN balance - t.amount ELSE balance
           b2 == IF t.receiver = address THEN b1 + t.amount ELSE b1
       IN TxFold(b2, Tail(txs), address)

RECURSIVE BlockFold(_, _, _)
\* the outer loop of get_balance over the blocks
BlockFold(balance, blocks, address) ==
  IF blocks = <<>> THEN balance
  ELSE LET b == Head(blocks)
       IN BlockFold(IF b.transactions # None
                    THEN TxFold(balance, b.transactions[1], address)
                    ELSE balance,
                    Tail(blocks), address)

\* Blockchain.get_balance
get_balance(bc, address, include_pending) ==
  LET confirmed == BlockFold(DictGet(bc.initial_balances, address), bc.chain, address)
  IN IF include_pending
     THEN TxFold(confirmed, bc.pending_transactions, address)
     ELSE confirmed

\* balances[tx.sender] -= amount; balances[tx.receiver] += amount
ApplyTx(balances, tx) ==
  LET b1 == [balances EXCEPT ![tx.sender] = @ - tx.amount]
  IN [b1 EXCEPT ![tx.receiver] = @ + tx.amount]

RECURSIVE ApplyTxs(_, _)
ApplyTxs(balances, txs) ==
  IF txs = <<>> THEN balances ELSE ApplyTxs(ApplyTx(balances, Head(txs)), Tail(txs))

RECURSIVE ReplayBlocks(_, _)
\* validate_block_transactions: balances from genesis to the block before
ReplayBlocks(balances, blocks) ==
  IF blocks = <<>> THEN balances
  ELSE LET b == Head(blocks)
       IN ReplayBlocks(IF b.transactions # None
                       THEN ApplyTxs(balances, b.transactions[1])
                       ELSE balances,
                       Tail(blocks))

RECURSIVE ValidateTxs_no_credit(_, _)
\* mutant of ValidateTxs: the balances are not updated inside the block
ValidateTxs_no_credit(balances, txs) ==
  IF txs = <<>> THEN TRUE
  ELSE LET tx == Head(txs)
       IN IF ~Transaction_is_valid(tx) THEN FALSE
          ELSE IF tx.transaction_id # Transaction_calculate_hash(tx) THEN FALSE
          ELSE IF tx.sender # "System" /\ balances[tx.sender] < tx.amount THEN FALSE
          ELSE ValidateTxs_no_credit(balances, Tail(txs))

RECURSIVE ValidateTxs(_, _)
\* validate_block_transactions: the loop over the block's own transactions
ValidateTxs(balances, txs) ==
  IF txs = <<>> THEN TRUE
  ELSE LET tx == Head(txs)
       IN IF ~Transaction_is_valid(tx) THEN FALSE
          ELSE IF tx.transaction_id # Transaction_calculate_hash(tx) THEN FALSE
          ELSE IF tx.sender # "System" /\ balances[tx.sender] < tx.amount THEN FALSE
          ELSE ValidateTxs(ApplyTx(balances, tx), Tail(txs))

\* Blockchain.validate_block_transactions (the boolean of the returned pair)
validate_block_transactions(bc, block) ==
  IF block.transactions = None THEN TRUE
  ELSE IF ~\E i \in 1..Len(bc.chain) : bc.chain[i] = block THEN FALSE
  ELSE LET block_index == CHOOSE i \in 1..Len(bc.chain) :
                             /\ bc.chain[i] = block
                             /\ \A j \in 1..(i - 1) : bc.chain[j] # block
           balances == [a \in AllAddresses |-> DictGet(bc.initial_balances, a)]
       IN ValidateTxs(ReplayBlocks(balances, SubSeq(bc.chain, 1, block_index - 1)),
                      block.transactions[1])

RECURSIVE ScanChain_no_rehash(_, _)
\* mutant of ScanChain: the stored hash is not compared with a recomputed one
ScanChain_no_rehash(bc, i) ==
  IF i > Len(bc.chain) THEN TRUE
  ELSE LET current_block == bc.chain[i]
       IN IF Prefix(current_block.hash, current_block.difficulty)
                    # Zeros(current_block.difficulty) THEN FALSE
          ELSE IF i = 1 /\ current_block.previous_hash # <<"0">> THEN FALSE
          ELSE IF i > 1 /\ current_block.previous_hash # bc.chain[i - 1].hash THEN FALSE
          ELSE IF ~validate_block_transactions(bc, current_block) THEN FALSE
          ELSE ScanChain_no_rehash(bc, i + 1)

RECURSIVE ScanChain(_, _)
\* the loop of is_chain_valid from position i (1-based) on
ScanChain(bc, i) ==
  IF i > Len(bc.chain) THEN TRUE
  ELSE LET current_block == bc.chain[i]
       IN IF current_block.hash # Block_calculate_hash(current_block) THEN FALSE
          ELSE IF Prefix(current_block.hash, current_block.difficulty)
                    # Zeros(current_block.difficulty) THEN FALSE
          ELSE IF i = 1 /\ current_block.previous_hash # <<"0">> THEN FALSE
          ELSE IF i > 1 /\ current_block.previous_hash # bc.chain[i - 1].hash THEN FALSE
          ELSE IF ~validate_block_transactions(bc, current_block) THEN FALSE
          ELSE ScanChain(bc, i + 1)

\* Blockchain.is_chain_valid
is_chain_valid(bc) == ScanChain(bc, 1)

\* Blockchain.is_chain_valid(verbose): the flag guards calls of print only
is_chain_valid_verbose(bc, verbose) == ScanChain(bc, 1)

(* --------------------- the operations, on a ledger --------------------- *)
\* Every operation maps the ledger bc to [outcome, bc]: the exception it
\* raises ("ok" or "None" when it returns) and the ledger it leaves.

\* mutant of create_transaction: the balance of the sender is not looked at
create_transaction_exc_nobalance(bc, sender, receiver, amount) ==
  LET init == Transaction_init_exc(sender, receiver, amount)
  IN IF init = "ValidationError" THEN "BlockchainError"
     ELSE IF init = "InvalidTransactionError" THEN "InvalidTransactionError"
     ELSE IF ~Transaction_is_valid(Transaction_init(sender, receiver, amount, 0))
       THEN "InvalidTransactionError"
     ELSE "ok"

\* mutant of create_transaction_exc: the balance check leaves the pending
\* pool out
create_transaction_exc_nopending(bc, sender, receiver, amount) ==
  LET init == Transaction_init_exc(sender, receiver, amount)
  IN IF init = "ValidationError" THEN "BlockchainError"
     ELSE IF init = "InvalidTransactionError" THEN "InvalidTransactionError"
     ELSE IF sender # "System" /\ get_balance(bc, sender, FALSE) < amount
       THEN "InsufficientBalanceError"
     ELSE "ok"

\* Blockchain.create_transaction: the exception raised, or "ok"
create_transaction_exc(bc, sender, receiver, amount) ==
  LET init == Transaction_init_exc(sender, receiver, amount)
  IN IF init = "ValidationError" THEN "BlockchainError"
     ELSE IF init = "InvalidTransactionError" THEN "InvalidTransactionError"
     ELSE IF ~Transaction_is_valid(Transaction_init(sender, receiver, amount, 0))
       THEN "InvalidTransactionError"
     ELSE IF sender # "System" /\ get_balance(bc, sender, TRUE) < amount
       THEN "InsufficientBalanceError"
     ELSE "ok"

\* mutant of create_transaction: the transaction is appended before the
\* balance check
create_transaction_append_first(bc, sender, receiver, amount, time) ==
  LET exc == create_transaction_exc(bc, sender, receiver, amount)
  IN IF exc \in {"BlockchainError", "InvalidTransactionError"}
     THEN [outcome |-> exc, bc |-> bc]
     ELSE [outcome |-> exc,
           bc |-> [bc EXCEPT !.pending_transactions =
                     Append(@, Transaction_init(sender, receiver, amount, time))]]

\* Blockchain.create_transaction
create_transaction(bc, sender, receiver, amount, time) ==
  LET exc == create_transaction_exc(bc, sender, receiver, amount)
  IN IF exc # "ok" THEN [outcome |-> exc, bc |-> bc]
     ELSE [outcome |-> "ok",
           bc |-> [bc EXCEPT !.pending_transactions =
                     Append(@, Transaction_init(sender, receiver, amount, time))]]

\* mutant of mine_precheck: the miner address is checked first
mine_precheck_miner_first(bc, miner_address) ==
  IF miner_address = "" THEN "ValidationError"
  ELSE IF bc.pending_transactions = <<>> THEN "None"
  ELSE "proceed"

\* Blockchain.mine_pending_transactions: the two checks before the try block
mine_precheck(bc, miner_address) ==
  IF bc.pending_transactions = <<>> THEN "None"
  ELSE IF miner_address = "" THEN "ValidationError"
  ELSE "proceed"

\* mutant of mine_pending_transactions: the pool is kept after the append
mine_pending_transactions_keep_pool(bc, miner_address, time) ==
  LET pre == mine_precheck(bc, miner_address)
      adj == adjust_difficulty(bc)
      adjusted == [bc EXCEPT !.difficulty = adj.val]
      reward_tx == Transaction_init("System", miner_address, bc.mining_reward, time)
      previous_block == get_latest_block(bc)
      new_block == Block_mine_block(Block_init_transactions(
                      previous_block.index + 1, time,
                      bc.pending_transactions \o <<reward_tx>>,
                      previous_block.hash, adj.val))
  IN IF pre # "proceed" THEN [outcome |-> pre, bc |-> bc]
     ELSE IF adj.exc # "ok" THEN [outcome |-> "MiningError", bc |-> bc]
     ELSE IF Transaction_init_exc("System", miner_address, bc.mining_reward) # "ok"
       THEN [outcome |-> "MiningError", bc |-> adjusted]
     ELSE [outcome |-> "ok",
           bc |-> [adjusted EXCEPT !.chain = Append(@, new_block)]]

\* mutant of mine_pending_transactions: the pool is cleared before the
\* reward transaction is built
mine_pending_transactions_clear_first(bc, miner_address, time) ==
  LET pre == mine_precheck(bc, miner_address)
      adj == adjust_difficulty(bc)
      adjusted == [bc EXCEPT !.difficulty = adj.val]
      reward_tx == Transaction_init("System", miner_address, bc.mining_reward, time)
      previous_block == get_latest_block(bc)
      new_block == Block_mine_block(Block_init_transactions(
                      previous_block.index + 1, time,
                      bc.pending_transactions \o <<reward_tx>>,
                      previous_block.hash, adj.val))
  IN IF pre # "proceed" THEN [outcome |-> pre, bc |-> bc]
     ELSE IF adj.exc # "ok" THEN [outcome |-> "MiningError", bc |-> bc]
     ELSE IF Transaction_init_exc("System", miner_address, bc.mining_reward) # "ok"
       THEN [outcome |-> "MiningError",
             bc |-> [adjusted EXCEPT !.pending_transactions = <<>>]]
     ELSE [outcome |-> "ok",
           bc |-> [adjusted EXCEPT !.chain = Append(@, new_block),
                                   !.pending_transactions = <<>>]]

\* mutant of mine_pending_transactions: the block holds the pool without a
\* reward transaction
mine_pending_transactions_no_reward(bc, miner_address, time) ==
  LET pre == mine_precheck(bc, miner_address)
      adj == adjust_difficulty(bc)
      adjusted == [bc EXCEPT !.difficulty = adj.val]
      previous_block == get_latest_block(bc)
      new_block == Block_mine_block(Block_init_transactions(
                      previous_block.index + 1, time,
                      bc.pending_transactions,
                      previous_block.hash, adj.val))
  IN IF pre # "proceed" THEN [outcome |-> pre, bc |-> bc]
     ELSE IF adj.exc # "ok" THEN [outcome |-> "MiningError", bc |-> bc]
     ELSE IF Transaction_init_exc("System", miner_address, bc.mining_reward) # "ok"
       THEN [outcome |-> "MiningError", bc |-> adjusted]
     ELSE [outcome |-> "ok",
           bc |-> [adjusted EXCEPT !.chain = Append(@, new_block),
                                   !.pending_transactions = <<>>]]

\* Blockchain.mine_pending_transactions
mine_pending_transactions(bc, miner_address, time) ==
  LET pre == mine_precheck(bc, miner_address)
      adj == adjust_difficulty(bc)
      adjusted == [bc EXCEPT !.difficulty = adj.val]
      reward_tx == Transaction_init("System", miner_address, bc.mining_reward, time)
      previous_block == get_latest_block(bc)
      new_block == Block_mine_block(Block_init_transactions(
                      previous_block.index + 1, time,
                      bc.pending_transactions \o <<reward_tx>>,
                      previous_block.hash, adj.val))
  IN IF pre # "proceed" THEN [outcome |-> pre, bc |-> bc]
     ELSE IF adj.exc # "ok" THEN [outcome |-> "MiningError", bc |-> bc]
     ELSE IF Transaction_init_exc("System", miner_address, bc.mining_reward) # "ok"
       THEN [outcome |-> "MiningError", bc |-> adjusted]
     ELSE [outcome |-> "ok",
           bc |-> [adjusted EXCEPT !.chain = Append(@, new_block),
                                   !.pending_transactions = <<>>]]

\* mutant of add_block: the new block takes the index of the latest block
add_block_same_index(bc, data, time) ==
  LET adj == adjust_difficulty(bc)
      previous_block == get_latest_block(bc)
      new_block == Block_mine_block(Block_init_legacy(
                      previous_block.index, time, data,
                      previous_block.hash, adj.val))
  IN IF adj.exc # "ok" THEN [outcome |-> adj.exc, bc |-> bc]
     ELSE [outcome |-> "ok",
           bc |-> [bc EXCEPT !.difficulty = adj.val, !.chain = Append(@, new_block)]]

\* mutant of add_block: the new block takes the place of the latest one
add_block_replace_latest(bc, data, time) ==
  LET adj == adjust_difficulty(bc)
      previous_block == get_latest_block(bc)
      new_block == Block_mine_block(Block_init_legacy(
                      previous_block.index + 1, time, data,
                      previous_block.hash, adj.val))
  IN IF adj.exc # "ok" THEN [outcome |-> adj.exc, bc |-> bc]
     ELSE [outcome |-> "ok",
           bc |-> [bc EXCEPT !.difficulty = adj.val,
                             !.chain = [@ EXCEPT ![Len(bc.chain)] = new_block]]]

\* Blockchain.add_block with a payload that is no list of Transaction objects
add_block(bc, data, time) ==
  LET adj == adjust_difficulty(bc)
      previous_block == get_latest_block(bc)
      new_block == Block_mine_block(Block_init_legacy(
                      previous_block.index + 1, time, data,
                      previous_block.hash, adj.val))
  IN IF adj.exc # "ok" THEN [outcome |-> adj.exc, bc |-> bc]
     ELSE [outcome |-> "ok",
           bc |-> [bc EXCEPT !.difficulty = adj.val, !.chain = Append(@, new_block)]]

\* Blockchain.add_block(data) where data is a non-empty list of Transaction
\* objects: Block.__init__ takes the list as the transactions of the block
add_block_transactions(bc, txs, time) ==
  LET adj == adjust_difficulty(bc)
      previous_block == get_latest_block(bc)
      new_block == Block_mine_block(Block_init_transactions(
                      previous_block.index + 1, time, txs,
                      previous_block.hash, adj.val))
  IN IF adj.exc # "ok" THEN [outcome |-> adj.exc, bc |-> bc]
     ELSE [outcome |-> "ok",
           bc |-> [bc EXCEPT !.difficulty = adj.val, !.chain = Append(@, new_block)]]

\* lists of Transaction objects that a caller builds at the given time and
\* hands to add_block
TransactionLists(time) ==
  {<<Transaction_init("Alice", "Bob", 5, time)>>,
   <<Transaction_init("Alice", "Bob", 1, time)>>}

\* lists of Transaction objects for add_block in which a transfer of Alice
\* is covered only by a credit of the same list, placed before or after it
CreditLists(time) ==
  {<<Transaction_init("System", "Alice", 5, time), Transaction_init("Alice", "Bob", 6, time)>>,
   <<Transaction_init("Alice", "Bob", 6, time), Transaction_init("System", "Alice", 5, time)>>}

(* ------------------------------- actions ------------------------------ *)
(* ----------------------------- export, import ------------------------- *)
\* Blockchain.to_dict
to_dict(bc) ==
  [difficulty |-> bc.difficulty,
   target_block_time |-> bc.target_block_time,
   adjustment_interval |-> bc.adjustment_interval,
   mining_reward |-> bc.mining_reward,
   initial_balances |-> bc.initial_balances,
   blocks |-> [i \in 1..Len(bc.chain) |->
                 [index |-> bc.chain[i].index,
                  timestamp |-> bc.chain[i].timestamp,
                  previous_hash |-> bc.chain[i].previous_hash,
                  hash |-> bc.chain[i].hash,
                  nonce |-> bc.chain[i].nonce,
                  difficulty |-> bc.chain[i].difficulty,
                  transactions |-> bc.chain[i].transactions,
                  data |-> bc.chain[i].data]],
   pending_transactions |-> bc.pending_transactions]

\* json.load(json.dump(v)) on a payload value: a tuple is written as a JSON
\* array and read back as a list
JsonValue(v) == IF v.type = "tuple" THEN [v EXCEPT !.type = "list"] ELSE v

\* json.load(json.dump(d)) on the dictionary of to_dict
JsonDocument(d) ==
  [d EXCEPT !.blocks = [i \in 1..Len(d.blocks) |->
     [d.blocks[i] EXCEPT !.data = IF @ = None THEN None ELSE Some(JsonValue(@[1]))]]]

\* import_from_file: does every Transaction(...) of the list get built?
TxDataOk(txs) ==
  \A j \in 1..Len(txs) :
     Transaction_init_exc(txs[j].sender, txs[j].receiver, txs[j].amount) = "ok"

\* import_from_file: one block of the document
ImportBlock(block_data) ==
  LET built == IF block_data.transactions # None /\ block_data.transactions[1] # <<>>
               THEN Block_init_transactions(block_data.index, block_data.timestamp,
                      block_data.transactions[1], block_data.previous_hash,
                      block_data.difficulty)
               ELSE Block_init_legacy(block_data.index, block_data.timestamp,
                      IF block_data.transactions # None
                      THEN Some([type |-> "list", text |-> <<>>])
                      ELSE block_data.data,
                      block_data.previous_hash, block_data.difficulty)
  IN [built EXCEPT !.hash = block_data.hash, !.nonce = block_data.nonce]

\* the keys of a block record that import_from_file subscripts
RequiredBlockFields == {"index", "timestamp", "previous_hash", "difficulty", "hash", "nonce"}

\* a dictionary without the key k
DropField(r, k) == [f \in (DOMAIN r) \ {k} |-> r[f]]

\* the content of a file that json.load cannot parse
InvalidJson == [invalid_json |-> TRUE]

\* damaged copies of the document d: a text that is no JSON, and d with one
\* required key missing from one block record
DamagedDocuments(d) ==
  {InvalidJson} \cup
  {[d EXCEPT !.blocks[i] = DropField(@, k)] :
     i \in 1..Len(d.blocks), k \in RequiredBlockFields}

\* documents that export_to_file did not write: d with no block records (the
\* key 'blocks' missing or its list empty) and d without its first records
ForeignDocuments(d) ==
  {[d EXCEPT !.blocks = SubSeq(@, k + 1, Len(@))] : k \in 1..Len(d.blocks)}

\* the transaction records of the block records of d, as <<block, place>>
TxRecords(d) ==
  {p \in (1..Len(d.blocks)) \X (1..MaxPool + 1) :
     /\ d.blocks[p[1]].transactions # None
     /\ p[2] <= Len(d.blocks[p[1]].transactions[1])}

\* copies of the document d, edited by hand, that keep every required field
\* and every transaction record constructible: the last previous_hash or the
\* last hash overwritten, one transaction id overwritten, one amount raised
UnvalidatedDocuments(d) ==
  {[d EXCEPT !.blocks[Len(d.blocks)].previous_hash = ForgedHash(0)],
   [d EXCEPT !.blocks[Len(d.blocks)].hash = ForgedHash(0)]}
  \cup {[d EXCEPT !.blocks[p[1]].transactions[1][p[2]].transaction_id = ForgedHash(0)] :
          p \in TxRecords(d)}
  \cup {[d EXCEPT !.blocks[p[1]].transactions[1][p[2]].amount = 5] : p \in TxRecords(d)}

\* copies of the document d with the amount of the transaction record at p
\* overwritten by a non-positive number
NonPositiveDocuments(d, p) ==
  {[d EXCEPT !.blocks[p[1]].transactions[1][p[2]].amount = a] : a \in {0, -1}}

\* import_from_file: the position of the first block record with a missing
\* key (0 if there is none)
FirstKeyError(data) ==
  IF \A i \in 1..Len(data.blocks) : RequiredBlockFields \subseteq DOMAIN data.blocks[i]
  THEN 0
  ELSE CHOOSE i \in 1..Len(data.blocks) :
         /\ ~(RequiredBlockFields \subseteq DOMAIN data.blocks[i])
         /\ \A j \in 1..(i - 1) : RequiredBlockFields \subseteq DOMAIN data.blocks[j]

\* mutant of import_from_file: a KeyError ends the loop over the blocks and
\* the ledger built so far is returned
import_from_file_partial(data) ==
  LET n == IF FirstKeyError(data) = 0 THEN Len(data.blocks) ELSE FirstKeyError(data) - 1
  IN [outcome |-> "ok",
      bc |-> [chain |-> [i \in 1..n |-> ImportBlock(data.blocks[i])],
              difficulty |-> data.difficulty,
              target_block_time |-> data.target_block_time,
              adjustment_interval |-> data.adjustment_interval,
              pending_transactions |-> data.pending_transactions,
              mining_reward |-> data.mining_reward,
              initial_balances |-> data.initial_balances]]

\* mutant of import_from_file: the first block record is skipped
import_from_file_skip_first(data) ==
  [outcome |-> "ok",
   bc |-> [chain |-> [i \in 1..(Len(data.blocks) - 1) |-> ImportBlock(data.blocks[i + 1])],
           difficulty |-> data.difficulty,
           target_block_time |-> data.target_block_time,
           adjustment_interval |-> data.adjustment_interval,
           pending_transactions |-> data.pending_transactions,
           mining_reward |-> data.mining_reward,
           initial_balances |-> data.initial_balances]]

\* mutant of import_from_file: the hash of every block is computed again
import_from_file_rehash(data) ==
  [outcome |-> "ok",
   bc |-> [chain |-> [i \in 1..Len(data.blocks) |->
                        [ImportBlock(data.blocks[i]) EXCEPT
                           !.hash = Block_calculate_hash(ImportBlock(data.blocks[i]))]],
           difficulty |-> data.difficulty,
           target_block_time |-> data.target_block_time,
           adjustment_interval |-> data.adjustment_interval,
           pending_transactions |-> data.pending_transactions,
           mining_reward |-> data.mining_reward,
           initial_balances |-> data.initial_balances]]

\* Blockchain.import_from_file on the dictionary that json.load returned
import_from_file(data) ==
  LET ok == /\ \A i \in 1..Len(data.blocks) :
                  data.blocks[i].transactions # None
                    => TxDataOk(data.blocks[i].transactions[1])
            /\ TxDataOk(data.pending_transactions)
  IN IF FirstKeyError(data) # 0 THEN [outcome |-> "ImportExportError", bc |-> None]
     ELSE IF ~ok THEN [outcome |-> "ImportExportError", bc |-> None]
     ELSE [outcome |-> "ok",
           bc |-> [chain |-> [i \in 1..Len(data.blocks) |-> ImportBlock(data.blocks[i])],
                   difficulty |-> data.difficulty,
                   target_block_time |-> data.target_block_time,
                   adjustment_interval |-> data.adjustment_interval,
                   pending_transactions |-> data.pending_transactions,
                   mining_reward |-> data.mining_reward,
                   initial_balances |-> data.initial_balances]]

\* Blockchain.import_from_file on a path: file is None when nothing exists at
\* the path and Some(content) otherwise
import_from_filename(file) ==
  IF file = None THEN [outcome |-> "FileNotFoundError", bc |-> None]
  ELSE IF file[1] = InvalidJson THEN [outcome |-> "ImportExportError", bc |-> None]
  ELSE import_from_file(file[1])

\* the last call and how it ended
Called(op, outcome) == [op |-> op, outcome |-> outcome]

SetLedger(bc) ==
  /\ chain' = bc.chain
  /\ difficulty' = bc.difficulty
  /\ target_block_time' = bc.target_block_time
  /\ adjustment_interval' = bc.adjustment_interval
  /\ pending_transactions' = bc.pending_transactions
  /\ mining_reward' = bc.mining_reward
  /\ initial_balances' = bc.initial_balances

\* time.time(): the clock stands at the creation time of the latest block
\* until the next block is created
now == chain[Len(chain)].timestamp

\* Blockchain.__init__ at time 0
Init ==
  /\ difficulty \in DifficultyArgs
  /\ MiningTerminates(difficulty)
  /\ target_block_time \in TargetBlockTimes
  /\ adjustment_interval \in AdjustmentIntervals
  /\ initial_balances \in InitialBalanceArgs
  /\ pending_transactions = <<>>
  /\ mining_reward = 10
  /\ chain = <<create_genesis_block(difficulty, 0)>>
  /\ result = Called("__init__", "ok")
  /\ document = None
  /\ tampered = FALSE
  /\ calls = NoCalls

CreateTransaction(sender, receiver, amount) ==
  LET r == create_transaction(self, sender, receiver, amount, now)
  IN /\ Len(r.bc.pending_transactions) <= MaxPool
     /\ SetLedger(r.bc)
     /\ result' = Called("create_transaction", r.outcome)
     /\ UNCHANGED <<document, tampered, calls>>

MinePendingTransactions(miner_address, elapsed) ==
  LET pre == mine_precheck(self, miner_address)
      r == mine_pending_transactions(self, miner_address, now + elapsed)
  IN /\ (pre = "proceed" /\ adjust_difficulty(self).exc = "ok")
          => (Len(chain) < MaxChain /\ MiningTerminates(adjust_difficulty(self).val))
     /\ SetLedger(r.bc)
     /\ result' = Called("mine_pending_transactions", r.outcome)
     /\ UNCHANGED <<document, tampered, calls>>

AddBlock(data, elapsed) ==
  LET r == add_block(self, Some(data), now + elapsed)
  IN /\ adjust_difficulty(self).exc = "ok"
          => (Len(chain) < MaxChain /\ MiningTerminates(adjust_difficulty(self).val))
     /\ SetLedger(r.bc)
     /\ result' = Called("add_block", r.outcome)
     /\ UNCHANGED <<document, tampered, calls>>

Next ==
  \/ \E t \in TransactionArgs : CreateTransaction(t[1], t[2], t[3])
  \/ \E miner_address \in MinerAddresses, elapsed \in BlockTimes :
       MinePendingTransactions(miner_address, elapsed)
  \/ \E data \in LegacyValues, elapsed \in BlockTimes : AddBlock(data, elapsed)

Spec == Init /\ [][Next]_vars

(* ------------------------ export and import actions -------------------- *)
\* Blockchain.export_to_file: the file holds the JSON document
ExportToFile ==
  /\ document = None
  /\ document' = Some(JsonDocument(to_dict(self)))
  /\ result' = Called("export_to_file", "ok")
  /\ UNCHANGED <<chain, difficulty, target_block_time, adjustment_interval,
                 pending_transactions, mining_reward, initial_balances, tampered, calls>>

\* what import_from_file may find at the path: nothing, the exported file or
\* a damaged copy of it
ImportFiles ==
  IF document = None THEN {None}
  ELSE {document} \cup {Some(d) : d \in DamagedDocuments(document[1])}

\* Blockchain.import_from_file: on success the caller replaces its ledger by
\* the one returned; the file is removed afterwards
ImportFromFile ==
  \E file \in ImportFiles :
    LET r == import_from_filename(file)
    IN /\ (file # None /\ file[1] # InvalidJson) => MiningTerminates(file[1].difficulty)
       /\ IF r.outcome = "ok"
          THEN SetLedger(r.bc)
          ELSE UNCHANGED <<chain, difficulty, target_block_time, adjustment_interval,
                           pending_transactions, mining_reward, initial_balances>>
       /\ result' = Called("import_from_file", r.outcome)
       /\ document' = None
       /\ UNCHANGED <<tampered, calls>>

\* the ledger operations run while no exported file waits for its import
FileNext ==
  \/ document = None /\ Next
  \/ ExportToFile
  \/ ImportFromFile

FileSpec == Init /\ [][FileNext]_vars

(* ------------------------------ read calls ----------------------------- *)
\* str() of a Python bool
BoolStr(b) == IF b THEN "True" ELSE "False"

\* mutant of IsChainValid: the scan stores the hash it recomputed
IsChainValid_rehash ==
  /\ chain' = [i \in 1..Len(chain) |->
                 [chain[i] EXCEPT !.hash = Block_calculate_hash(chain[i])]]
  /\ result' = Called("is_chain_valid", BoolStr(is_chain_valid(self)))
  /\ UNCHANGED <<difficulty, target_block_time, adjustment_interval,
                 pending_transactions, mining_reward, initial_balances,
                 document, tampered, calls>>

\* Blockchain.is_chain_valid: no attribute of the ledger is assigned
IsChainValid ==
  /\ result' = Called("is_chain_valid", BoolStr(is_chain_valid(self)))
  /\ UNCHANGED <<chain, difficulty, target_block_time, adjustment_interval,
                 pending_transactions, mining_reward, initial_balances,
                 document, tampered, calls>>

\* Blockchain.get_balance: the sum is kept in a local
GetBalance(address, include_pending) ==
  /\ get_balance(self, address, include_pending) \in Int
  /\ result' = Called("get_balance", "ok")
  /\ UNCHANGED <<chain, difficulty, target_block_time, adjustment_interval,
                 pending_transactions, mining_reward, initial_balances,
                 document, tampered, calls>>

\* Blockchain.validate_block_transactions on block i of the chain: the
\* balances are replayed in a copy of initial_balances
ValidateBlockTransactions(i) ==
  /\ result' = Called("validate_block_transactions",
                      BoolStr(validate_block_transactions(self, chain[i])))
  /\ UNCHANGED <<chain, difficulty, target_block_time, adjustment_interval,
                 pending_transactions, mining_reward, initial_balances,
                 document, tampered, calls>>

\* every operation of the ledger, the read calls included
QueryNext ==
  \/ FileNext
  \/ document = None /\ IsChainValid
  \/ document = None /\ \E address \in Senders, include_pending \in BOOLEAN :
                          GetBalance(address, include_pending)
  \/ document = None /\ \E i \in 1..Len(chain) : ValidateBlockTransactions(i)

QuerySpec == Init /\ [][QueryNext]_vars

(* --------------------------- outside tampering ------------------------- *)
\* One attribute of one committed block is overwritten from outside, right
\* after a call that committed a block.
CanTamper ==
  /\ ~tampered
  /\ result.outcome = "ok"
  /\ result.op \in {"__init__", "add_block", "mine_pending_transactions"}

Tampered(new_chain) ==
  /\ chain' = new_chain
  /\ tampered' = TRUE
  /\ result' = Called("tamper", "ok")
  /\ UNCHANGED <<difficulty, target_block_time, adjustment_interval,
                 pending_transactions, mining_reward, initial_balances, document, calls>>

\* block.data = v on a legacy block
TamperData(i, v) ==
  /\ CanTamper
  /\ chain[i].transactions = None
  /\ chain[i].data # Some(v)
  /\ Tampered([chain EXCEPT ![i].data = Some(v)])

\* block.transactions.pop() on a transaction block
TamperTransactions(i) ==
  /\ CanTamper
  /\ chain[i].transactions # None
  /\ Tampered([chain EXCEPT ![i].transactions =
                 Some(SubSeq(@[1], 1, Len(@[1]) - 1))])

\* block.transactions[j].amount = a
TamperAmount(i, j, a) ==
  /\ CanTamper
  /\ chain[i].transactions # None
  /\ j \in 1..Len(chain[i].transactions[1])
  /\ chain[i].transactions[1][j].amount # a
  /\ Tampered([chain EXCEPT ![i].transactions =
                 Some([@[1] EXCEPT ![j].amount = a])])

\* block.hash = h
TamperHash(i, h) ==
  /\ CanTamper
  /\ chain[i].hash # h
  /\ Tampered([chain EXCEPT ![i].hash = h])

\* block.previous_hash = h
TamperPreviousHash(i, h) ==
  /\ CanTamper
  /\ chain[i].previous_hash # h
  /\ Tampered([chain EXCEPT ![i].previous_hash = h])

Tamper ==
  \E i \in 1..Len(chain) :
    \/ \E v \in TamperValues : TamperData(i, v)
    \/ TamperTransactions(i)
    \/ \E j \in 1..MaxPool + 1, a \in TamperAmounts : TamperAmount(i, j, a)
    \/ \E h \in {ForgedHash(chain[i].difficulty), chain[1].hash} : TamperHash(i, h)
    \/ \E h \in {<<"0">>, ForgedHash(chain[i].difficulty)} : TamperPreviousHash(i, h)

TamperNext ==
  \/ ~tampered /\ Next
  \/ Tamper

TamperSpec == Init /\ [][TamperNext]_vars

(* --------------------------- concurrent callers ------------------------ *)
\* Several threads call one ledger.  create_transaction reads the balance of
\* the sender and appends to the pool in two steps, and another thread may
\* run between the two unless the callers are serialized.
ConcurrentTransactions ==
  {t \in TransactionArgs : t[1] # "System"} \cup {<<"Alice", "Bob", 1>>}

\* the threads in the middle of a call
Running == {th \in Threads : calls.running[th] # None}

\* the threads that have built a Transaction and not yet appended it
Creating == {th \in Running : "sender" \in DOMAIN calls.running[th][1]}

\* the threads that have mined a Block and not yet appended it
Mining == {th \in Running : "index" \in DOMAIN calls.running[th][1]}

\* mutant of CanStart: the callers never wait for each other
CanStart_unlocked == TRUE

\* single-writer discipline: a call starts only when no other call is running
CanStart == calls.serialized => Running = {}

\* create_transaction up to the balance check: the Transaction is built and
\* validated, the balance of the sender is read and compared
BeginCreateTransaction(th, sender, receiver, amount) ==
  LET exc == create_transaction_exc(self, sender, receiver, amount)
  IN /\ calls.running[th] = None
     /\ CanStart
     /\ Len(pending_transactions) + Cardinality(Creating) < MaxPool
     /\ IF exc = "ok"
        THEN /\ calls' = [calls EXCEPT !.running[th] =
                            Some(Transaction_init(sender, receiver, amount, now))]
             /\ UNCHANGED result
        ELSE /\ result' = Called("create_transaction", exc)
             /\ UNCHANGED calls
     /\ UNCHANGED <<chain, difficulty, target_block_time, adjustment_interval,
                    pending_transactions, mining_reward, initial_balances,
                    document, tampered>>

\* create_transaction after the balance check: the append to the pool
EndCreateTransaction(th) ==
  /\ th \in Creating
  /\ pending_transactions' = Append(pending_transactions, calls.running[th][1])
  /\ calls' = [calls EXCEPT !.running[th] = None]
  /\ result' = Called("create_transaction", "ok")
  /\ UNCHANGED <<chain, difficulty, target_block_time, adjustment_interval,
                 mining_reward, initial_balances, document, tampered>>

\* Blockchain.__init__ at time 0, for callers that are serialized or not
ConcurrentInit ==
  /\ difficulty \in DifficultyArgs
  /\ MiningTerminates(difficulty)
  /\ target_block_time \in TargetBlockTimes
  /\ adjustment_interval \in AdjustmentIntervals
  /\ initial_balances \in InitialBalanceArgs
  /\ pending_transactions = <<>>
  /\ mining_reward = 10
  /\ chain = <<create_genesis_block(difficulty, 0)>>
  /\ result = Called("__init__", "ok")
  /\ document = None
  /\ tampered = FALSE
  /\ calls \in {[NoCalls EXCEPT !.serialized = s] : s \in BOOLEAN}

ConcurrentNext ==
  \/ \E th \in Threads, t \in ConcurrentTransactions :
       BeginCreateTransaction(th, t[1], t[2], t[3])
  \/ \E th \in Threads : EndCreateTransaction(th)
  \/ CanStart /\ \E miner_address \in MinerAddresses, elapsed \in BlockTimes :
                   MinePendingTransactions(miner_address, elapsed)
  \/ CanStart /\ \E data \in LegacyValues, elapsed \in BlockTimes : AddBlock(data, elapsed)

ConcurrentSpec == ConcurrentInit /\ [][ConcurrentNext]_vars

(* ------------------------- mining beside other calls ------------------- *)
\* mutant of EndMinePendingTransactions: the pool is not reset
EndMinePendingTransactions_keep_pool(th) ==
  /\ th \in Mining
  /\ Len(chain) < MaxChain
  /\ chain' = Append(chain, calls.running[th][1])
  /\ calls' = [calls EXCEPT !.running[th] = None]
  /\ result' = Called("mine_pending_transactions", "ok")
  /\ UNCHANGED <<difficulty, target_block_time, adjustment_interval,
                 pending_transactions, mining_reward, initial_balances, document, tampered>>

\* mine_pending_transactions up to the end of mine_block: the checks, the
\* adjusted difficulty, the reward, the block built from the pool as it is
\* now and mined; a call that fails ends here
BeginMinePendingTransactions(th, miner_address, elapsed) ==
  LET r == mine_pending_transactions(self, miner_address, now + elapsed)
  IN /\ calls.running[th] = None
     /\ CanStart
     /\ MiningTerminates(adjust_difficulty(self).val)
     /\ IF r.outcome = "ok"
        THEN /\ difficulty' = r.bc.difficulty
             /\ calls' = [calls EXCEPT !.running[th] = Some(get_latest_block(r.bc))]
             /\ UNCHANGED <<chain, target_block_time, adjustment_interval,
                            pending_transactions, mining_reward, initial_balances,
                            result>>
        ELSE /\ SetLedger(r.bc)
             /\ result' = Called("mine_pending_transactions", r.outcome)
             /\ UNCHANGED calls
     /\ UNCHANGED <<document, tampered>>

\* mine_pending_transactions after mine_block: the block is appended and
\* the pool is replaced by an empty list
EndMinePendingTransactions(th) ==
  /\ th \in Mining
  /\ Len(chain) < MaxChain
  /\ chain' = Append(chain, calls.running[th][1])
  /\ pending_transactions' = <<>>
  /\ calls' = [calls EXCEPT !.running[th] = None]
  /\ result' = Called("mine_pending_transactions", "ok")
  /\ UNCHANGED <<difficulty, target_block_time, adjustment_interval,
                 mining_reward, initial_balances, document, tampered>>

\* the seconds between two blocks: faster and slower than the target
MiningBlockTimes == {0, 2}

MiningNext ==
  \/ \E th \in Threads, t \in ConcurrentTransactions :
       BeginCreateTransaction(th, t[1], t[2], t[3])
  \/ \E th \in Threads : EndCreateTransaction(th)
  \/ \E th \in Threads, miner_address \in MinerAddresses, elapsed \in MiningBlockTimes :
       BeginMinePendingTransactions(th, miner_address, elapsed)
  \/ \E th \in Threads : EndMinePendingTransactions(th)

MiningSpec == ConcurrentInit /\ [][MiningNext]_vars

(* --------------------------- transaction objects ----------------------- *)
\* Transaction objects built outside the ledger, at any reading of the clock
IdAmounts == {1, 12}
IdTimestamps == {3, 23}

\* Transaction(sender, receiver, amount) at the clock reading timestamp, kept
\* by the thread
NewTransaction(th, sender, receiver, amount, timestamp) ==
  /\ Transaction_init_exc(sender, receiver, amount) = "ok"
  /\ calls' = [calls EXCEPT !.running[th] =
                 Some(Transaction_init(sender, receiver, amount, timestamp))]
  /\ result' = Called("Transaction", "ok")
  /\ UNCHANGED <<chain, difficulty, target_block_time, adjustment_interval,
                 pending_transactions, mining_reward, initial_balances,
                 document, tampered>>

\* transaction.calculate_hash() on the object of the thread, compared with
\* its transaction_id; no attribute is assigned
CalculateHash(th) ==
  /\ calls.running[th] # None
  /\ result' = Called("calculate_hash",
                      BoolStr(Transaction_calculate_hash(calls.running[th][1])
                                = calls.running[th][1].transaction_id))
  /\ UNCHANGED <<chain, difficulty, target_block_time, adjustment_interval,
                 pending_transactions, mining_reward, initial_balances,
                 document, tampered, calls>>

IdNext ==
  \/ \E th \in Threads, sender \in Senders, receiver \in Receivers,
         amount \in IdAmounts, timestamp \in IdTimestamps :
       NewTransaction(th, sender, receiver, amount, timestamp)
  \/ \E th \in Threads : CalculateHash(th)

IdSpec == Init /\ [][IdNext]_vars

(* ------------------------------ scenario A ----------------------------- *)
\* the defaults of Blockchain.__init__
DefaultDifficulty == 2
DefaultTargetBlockTime == 10
DefaultAdjustmentInterval == 5

\* the calls of the balance scenario: Alice, who starts with 100, pays Bob,
\* Bob pays back, and Miner1 mines
ScenarioATransactions == {<<"Alice", "Bob", 50>>, <<"Bob", "Alice", 50>>,
                          <<"Alice", "Bob", 1000>>}

\* Blockchain(difficulty=d, initial_balances={"Alice": 100}) at time 0
ScenarioAInit ==
  /\ difficulty \in {1, DefaultDifficulty}
  /\ target_block_time = DefaultTargetBlockTime
  /\ adjustment_interval = DefaultAdjustmentInterval
  /\ initial_balances = [a \in {"Alice"} |-> 100]
  /\ pending_transactions = <<>>
  /\ mining_reward = 10
  /\ chain = <<create_genesis_block(difficulty, 0)>>
  /\ result = Called("__init__", "ok")
  /\ document = None
  /\ tampered = FALSE
  /\ calls = NoCalls

ScenarioANext ==
  \/ \E t \in ScenarioATransactions : CreateTransaction(t[1], t[2], t[3])
  \/ \E elapsed \in BlockTimes : MinePendingTransactions("Miner1", elapsed)

ScenarioASpec == ScenarioAInit /\ [][ScenarioANext]_vars

(* ------------------------------ scenario D ----------------------------- *)
\* the number of blocks added and the adjustment interval of the scenario
ScenarioDBlocks == 6
ScenarioDInterval == 3

\* seconds between two blocks: 0 and 7 are below 0.75 of the target of 10,
\* 8 is within the band and 20 is above 1.5 of it
ScenarioDBlockTimes == {0, 7, 8, 20}

\* Blockchain(difficulty=1, target_block_time=10, adjustment_interval=3)
ScenarioDInit ==
  /\ difficulty = 1
  /\ target_block_time = DefaultTargetBlockTime
  /\ adjustment_interval = ScenarioDInterval
  /\ initial_balances = [a \in {} |-> 0]
  /\ pending_transactions = <<>>
  /\ mining_reward = 10
  /\ chain = <<create_genesis_block(difficulty, 0)>>
  /\ result = Called("__init__", "ok")
  /\ document = None
  /\ tampered = FALSE
  /\ calls = NoCalls

\* Blockchain.add_block, for the blocks of the scenario
ScenarioDAddBlock(data, elapsed) ==
  LET r == add_block(self, Some(data), now + elapsed)
  IN /\ Len(chain) <= ScenarioDBlocks
     /\ MiningTerminates(adjust_difficulty(self).val)
     /\ SetLedger(r.bc)
     /\ result' = Called("add_block", r.outcome)
     /\ UNCHANGED <<document, tampered, calls>>

ScenarioDNext == \E elapsed \in ScenarioDBlockTimes : ScenarioDAddBlock(PyStr1, elapsed)

ScenarioDSpec == ScenarioDInit /\ [][ScenarioDNext]_vars

(* ------------------------- adjustment thresholds ----------------------- *)
\* seconds between two blocks, for windows on the thresholds as well: at the
\* target of 10 and the interval of 3, 7 + 8 seconds average 0.75 of the
\* target and 10 + 20 seconds average 1.5 of it
AdjustBlockTimes == ScenarioDBlockTimes \cup {10}

\* Blockchain(difficulty=d, target_block_time=10, adjustment_interval=3) at
\* the lowest and the highest difficulty that adjust_difficulty returns
AdjustInit ==
  /\ difficulty \in {1, 8}
  /\ target_block_time = DefaultTargetBlockTime
  /\ adjustment_interval = ScenarioDInterval
  /\ initial_balances = [a \in {} |-> 0]
  /\ pending_transactions = <<>>
  /\ mining_reward = 10
  /\ chain = <<create_genesis_block(difficulty, 0)>>
  /\ result = Called("__init__", "ok")
  /\ document = None
  /\ tampered = FALSE
  /\ calls = NoCalls

AdjustNext == \E elapsed \in AdjustBlockTimes : ScenarioDAddBlock(PyStr1, elapsed)

AdjustSpec == AdjustInit /\ [][AdjustNext]_vars

(* =============================== claims =============================== *)
\* the places of the transactions of bc: <<i, j>> is transaction j of block
\* i, <<0, j>> is transaction j of the pending pool
ConfirmedPlaces(bc) ==
  {p \in (1..Len(bc.chain)) \X (1..(MaxPool + 1)) :
     /\ bc.chain[p[1]].transactions # None
     /\ p[2] <= Len(bc.chain[p[1]].transactions[1])}

PendingPlaces(bc) == {0} \X (1..Len(bc.pending_transactions))

TxAt(bc, p) ==
  IF p[1] = 0 THEN bc.pending_transactions[p[2]]
  ELSE bc.chain[p[1]].transactions[1][p[2]]

RECURSIVE SumAmounts(_, _)
SumAmounts(bc, places) ==
  IF places = {} THEN 0
  ELSE LET p == CHOOSE q \in places : TRUE
       IN TxAt(bc, p).amount + SumAmounts(bc, places \ {p})

\* initial balance plus amounts received minus amounts sent
LedgerBalance(bc, address, include_pending) ==
  LET places == ConfirmedPlaces(bc)
                  \cup (IF include_pending THEN PendingPlaces(bc) ELSE {})
  IN DictGet(bc.initial_balances, address)
       + SumAmounts(bc, {p \in places : TxAt(bc, p).receiver = address})
       - SumAmounts(bc, {p \in places : TxAt(bc, p).sender = address})

HasLegacyBlock == \E i \in 1..Len(chain) : chain[i].transactions = None
HasMinedPool == \E i \in 2..Len(chain) : chain[i].transactions # None

\* C1: after any sequence of create_transaction, mine_pending_transactions
\* and legacy add_block calls on a ledger built by the constructor with
\* non-negative initial balances, is_chain_valid() returns True.
Thm_C1 == is_chain_valid(self)

W_C1 ==
  /\ HasLegacyBlock
  /\ HasMinedPool
  /\ chain[Len(chain)].difficulty # chain[1].difficulty

Thm_C4 ==
  \A a \in AllAddresses, include_pending \in BOOLEAN :
    get_balance(self, a, include_pending) = LedgerBalance(self, a, include_pending)

W_C4 ==
  /\ result.op = "create_transaction"
  /\ HasLegacyBlock
  /\ HasMinedPool
  /\ pending_transactions # <<>>
  /\ get_balance(self, "Alice", TRUE) # get_balance(self, "Alice", FALSE)
  /\ get_balance(self, "Bob", FALSE) > 0

\* C5: mine_pending_transactions with a non-empty pool and a non-empty miner
\* address appends exactly one block, linked to the former tail, holding the
\* pool in order followed by one System->miner reward of mining_reward, and
\* empties the pool.
CE_C5 ==
  pending_transactions # <<>> =>
    \A miner \in MinerAddresses \ {""} :
      LET r == mine_pending_transactions(self, miner, now)
          tail == r.bc.chain[Len(r.bc.chain)]
          txs == tail.transactions[1]
          reward == txs[Len(txs)]
      IN /\ r.outcome = "ok"
         /\ SubSeq(r.bc.chain, 1, Len(chain)) = chain
         /\ Len(r.bc.chain) = Len(chain) + 1
         /\ tail.previous_hash = chain[Len(chain)].hash
         /\ SubSeq(txs, 1, Len(txs) - 1) = pending_transactions
         /\ reward.sender = "System" /\ reward.receiver = miner
         /\ reward.amount = mining_reward
         /\ r.bc.pending_transactions = <<>>

CE_C7 == tampered => ~is_chain_valid(self)

\* C8: 1 <= difficulty <= 8 in every reachable state.
CE_C8 == difficulty >= 1 /\ difficulty <= 8

\* C9: exporting a ledger and importing the document yields a ledger that
\* is valid and has the same balance for every address.
CE_C9 ==
  LET r == import_from_file(JsonDocument(to_dict(self)))
  IN /\ r.outcome = "ok"
     /\ is_chain_valid(r.bc)
     /\ \A a \in AllAddresses : get_balance(r.bc, a, FALSE) = get_balance(self, a, FALSE)

\* C10: export followed by import reproduces the chain block for block
\* (index, timestamp, previous_hash, hash, nonce, difficulty, payload), the
\* pending pool and the policy parameters.
CE_C10 ==
  LET r == import_from_file(JsonDocument(to_dict(self)))
  IN r.outcome = "ok" /\ r.bc = self

\* the ledger object held by the caller is what it was before the step
LedgerUnchanged ==
  UNCHANGED <<chain, difficulty, target_block_time, adjustment_interval,
              pending_transactions, mining_reward, initial_balances>>

CE_C12 ==
  \A t \in TransactionArgs :
    LET r == create_transaction(self, t[1], t[2], t[3], now)
    IN ((t[3] <= 0 /\ t[1] # "System") \/ t[1] = t[2])
         => /\ r.outcome \in {"ValidationError", "InvalidTransactionError"}
            /\ r.bc = self

\* C13: a mine_pending_transactions call that raises (ValidationError for an
\* empty miner address, MiningError for a failure inside the try block)
\* leaves the chain and the pending pool as they were.
Thm_C13 ==
  \A miner \in MinerAddresses, elapsed \in BlockTimes :
    LET r == mine_pending_transactions(self, miner, now + elapsed)
    IN r.outcome \in {"ValidationError", "MiningError"}
         => /\ r.bc.chain = chain
            /\ r.bc.pending_transactions = pending_transactions

\* a mining call failed on the reward transaction after it had adjusted the
\* difficulty
W_C13 ==
  /\ result.op = "mine_pending_transactions"
  /\ result.outcome = "MiningError"
  /\ pending_transactions # <<>>
  /\ difficulty # chain[Len(chain)].difficulty

\* C14: every call (create_transaction, mine_pending_transactions,
\* add_block, get_balance, validate_block_transactions, is_chain_valid,
\* export_to_file) leaves the chain it found as a prefix of the chain it
\* leaves, and appends at most one block.
Thm_C14 ==
  [][result'.op # "import_from_file"
       => /\ Len(chain') >= Len(chain)
          /\ Len(chain') <= Len(chain) + 1
          /\ SubSeq(chain', 1, Len(chain)) = chain]_vars

W_C14 ==
  /\ result.op = "mine_pending_transactions"
  /\ result.outcome = "ok"
  /\ Len(chain) = MaxChain
  /\ HasLegacyBlock

Thm_C15 ==
  /\ chain[1].previous_hash = <<"0">>
  /\ \A i \in 2..Len(chain) : chain[i].previous_hash = chain[i - 1].hash

W_C15 ==
  /\ Len(chain) = MaxChain
  /\ HasLegacyBlock
  /\ HasMinedPool

\* C16: every committed block's stored hash is the hash recomputed from its
\* index, timestamp, payload, previous_hash and nonce.
Thm_C16 == \A i \in 1..Len(chain) : chain[i].hash = Block_calculate_hash(chain[i])

W_C16 ==
  \E i \in 2..Len(chain) :
    /\ chain[i].nonce > 0
    /\ chain[i].transactions # None
    /\ Len(chain[i].transactions[1]) = MaxPool + 1

\* C17: every committed block's hash starts with as many zero digits as the
\* block's own difficulty, and its nonce is not negative.
Thm_C17 ==
  \A i \in 1..Len(chain) :
    /\ Prefix(chain[i].hash, chain[i].difficulty) = Zeros(chain[i].difficulty)
    /\ chain[i].nonce >= 0

W_C17 ==
  \E i \in 2..Len(chain) :
    /\ chain[i].difficulty >= 2
    /\ chain[i].difficulty # chain[1].difficulty
    /\ chain[i].nonce > 1

\* C19: on a ledger constructed with initial_balances {"Alice": 100} whose
\* pool holds the one accepted transaction Alice -> Bob 50,
\* mine_pending_transactions("Miner1") leaves balance(Alice) = 50,
\* balance(Bob) = 50, balance(Miner1) = 10, a chain of 2 blocks and an empty
\* pool.
Thm_C19 ==
  [][(/\ Len(chain) = 1
      /\ Len(pending_transactions) = 1
      /\ pending_transactions[1].sender = "Alice"
      /\ pending_transactions[1].receiver = "Bob"
      /\ pending_transactions[1].amount = 50
      /\ result'.op = "mine_pending_transactions")
       => (/\ get_balance(self', "Alice", FALSE) = 50
           /\ get_balance(self', "Bob", FALSE) = 50
           /\ get_balance(self', "Miner1", FALSE) = 10
           /\ Len(chain') = 2
           /\ pending_transactions' = <<>>)]_vars

W_C19 ==
  /\ result.op = "mine_pending_transactions"
  /\ result.outcome = "ok"
  /\ Len(chain) = 2
  /\ Len(chain[2].transactions[1]) = 2
  /\ get_balance(self, "Bob", FALSE) = 50
  /\ get_balance(self, "Miner1", FALSE) = 10

\* the blocks n - adjustment_interval + 1 .. n were created with an average
\* inter-block time below 0.75 of the target
FastWindow(n) ==
  4 * (chain[n].timestamp - chain[n - adjustment_interval + 1].timestamp)
    < 3 * (adjustment_interval - 1) * target_block_time

\* C20: on a ledger constructed with difficulty 1, adjustment_interval 3 and
\* target_block_time 10, once 6 blocks were added with average inter-block
\* times below 0.75 of the target in every adjustment window, the difficulty
\* is greater than 1.
Thm_C20 ==
  (/\ Len(chain) = ScenarioDBlocks + 1
   /\ \A n \in 1..ScenarioDBlocks : n % adjustment_interval = 0 => FastWindow(n))
    => difficulty > 1

W_C20 ==
  /\ Len(chain) = ScenarioDBlocks + 1
  /\ \A n \in 1..ScenarioDBlocks : n % adjustment_interval = 0 => FastWindow(n)
  /\ difficulty = 3
  /\ chain[ScenarioDBlocks + 1].difficulty = 3

StartsWithGenesis(blocks) ==
  /\ blocks # <<>>
  /\ blocks[1].index = 0
  /\ blocks[1].previous_hash = <<"0">>

Verbatim(r, d) ==
  /\ r.outcome = "ok"
  /\ Len(r.bc.chain) = Len(d.blocks)
  /\ \A i \in 1..Len(d.blocks) :
        /\ r.bc.chain[i].hash = d.blocks[i].hash
        /\ r.bc.chain[i].nonce = d.blocks[i].nonce
        /\ r.bc.chain[i].transactions = d.blocks[i].transactions

DiffFields(a, b) ==
  {f \in {"sender", "receiver", "amount", "timestamp"} : a[f] # b[f]}

\* the pairs of Transaction objects that the threads hold
HeldPairs ==
  {<<calls.running[t1][1], calls.running[t2][1]>> :
     t1 \in Running, t2 \in Running}

\* C26: calculate_hash is a function of sender, receiver, amount and
\* timestamp: transactions equal in the four fields have equal ids,
\* calculate_hash on an unchanged transaction returns its transaction_id, and
\* transactions that differ in exactly one field have different ids.
Thm_C26 ==
  /\ result.op = "calculate_hash" => result.outcome = "True"
  /\ \A p \in HeldPairs :
        /\ Transaction_calculate_hash(p[1]) = p[1].transaction_id
        /\ DiffFields(p[1], p[2]) = {} => p[1].transaction_id = p[2].transaction_id
        /\ Cardinality(DiffFields(p[1], p[2])) = 1
              => p[1].transaction_id # p[2].transaction_id

\* two transactions that differ in the amount alone, 1 against 12, after a
\* calculate_hash call
W_C26 ==
  /\ result.op = "calculate_hash"
  /\ \E p \in HeldPairs :
        /\ DiffFields(p[1], p[2]) = {"amount"}
        /\ p[1].amount = 1 /\ p[2].amount = 12

\* C27 as stated: transactions that differ in at least one of sender,
\* receiver, amount, timestamp have different transaction ids.
CE_C27 ==
  \A p \in HeldPairs :
     DiffFields(p[1], p[2]) # {} => p[1].transaction_id # p[2].transaction_id

WindowSpan ==
  chain[Len(chain)].timestamp - chain[Len(chain) - adjustment_interval + 1].timestamp

\* C29: at an adjustment boundary, with ratio = (WindowSpan /
\* (adjustment_interval - 1)) / target_block_time, adjust_difficulty returns
\* min(8, d + 1) if ratio < 0.75, max(1, d - 1) if ratio > 1.5 and d
\* otherwise, the ratios 0.75 and 1.5 themselves included in "otherwise".
Thm_C29 ==
  (Len(chain) % adjustment_interval = 0 /\ Len(chain) >= adjustment_interval)
    => /\ adjust_difficulty(self).exc = "ok"
       /\ adjust_difficulty(self).val =
            IF 4 * WindowSpan < 3 * (adjustment_interval - 1) * target_block_time
            THEN Min(8, difficulty + 1)
            ELSE IF 2 * WindowSpan > 3 * (adjustment_interval - 1) * target_block_time
            THEN Max(1, difficulty - 1)
            ELSE difficulty

\* six blocks: the first window averaged exactly 1.5 of the target, the one
\* about to be measured exactly 0.75 of it
W_C29 ==
  /\ Len(chain) = 6
  /\ 2 * (chain[3].timestamp - chain[1].timestamp) = 3 * 2 * target_block_time
  /\ 4 * WindowSpan = 3 * 2 * target_block_time

\* the four checks of block i (1-based) of the chain: stored hash equal to
\* the recomputed one, leading zeros for the recorded difficulty, link to the
\* block before ("0" for the first block), transactions valid
BlockChecks(i) ==
  /\ chain[i].hash = Block_calculate_hash(chain[i])
  /\ \A z \in 1..chain[i].difficulty :
        z <= Len(chain[i].hash) /\ chain[i].hash[z] = "0"
  /\ chain[i].previous_hash = IF i = 1 THEN <<"0">> ELSE chain[i - 1].hash
  /\ validate_block_transactions(self, chain[i])

RunningBalance(bc, i, j, address) ==
  LET places == {p \in ConfirmedPlaces(bc) : p[1] < i \/ (p[1] = i /\ p[2] < j)}
  IN DictGet(bc.initial_balances, address)
       + SumAmounts(bc, {p \in places : TxAt(bc, p).receiver = address})
       - SumAmounts(bc, {p \in places : TxAt(bc, p).sender = address})

\* block i of the ledger is a legacy block, or each of its transactions is
\* well-formed, carries its own id and is covered by the running balance
BlockPasses(bc, i) ==
  \/ bc.chain[i].transactions = None
  \/ \A j \in 1..Len(bc.chain[i].transactions[1]) :
        LET tx == bc.chain[i].transactions[1][j]
        IN /\ tx.sender # tx.receiver
           /\ tx.amount > 0 \/ tx.sender = "System"
           /\ tx.transaction_id = Transaction_calculate_hash(tx)
           /\ tx.sender # "System" => RunningBalance(bc, i, j, tx.sender) >= tx.amount

\* the ledger, and the ledgers that add_block makes of it with a list of
\* transactions
LedgersWithLists ==
  {self} \cup {add_block_transactions(self, txs, now).bc :
                 txs \in TransactionLists(now) \cup CreditLists(now)}

\* C31: validate_block_transactions passes a block of the chain exactly when
\* the block is a legacy block or every transaction of it is well-formed,
\* carries its recomputed id and, unless sent by "System", is covered by
\* initial_balances plus all transactions before it in the chain and in the
\* block; a legacy block passes wherever it is, a transaction block that is
\* not in the chain fails.
Thm_C31 ==
  /\ \A bc \in LedgersWithLists : \A i \in 1..Len(bc.chain) :
        validate_block_transactions(bc, bc.chain[i]) <=> BlockPasses(bc, i)
  /\ \A txs \in TransactionLists(now) :
        ~validate_block_transactions(self,
            Block_init_transactions(Len(chain), now, txs, chain[Len(chain)].hash, difficulty))
  /\ validate_block_transactions(self,
        Block_init_legacy(Len(chain), now, Some(PyInt1), chain[Len(chain)].hash, difficulty))

\* a chain with a block of several transactions that fails the validation
\* after an attribute of the chain was overwritten
W_C31 ==
  /\ tampered
  /\ \E i \in 2..Len(chain) :
        /\ chain[i].transactions # None
        /\ Len(chain[i].transactions[1]) >= 2
        /\ ~validate_block_transactions(self, chain[i])

\* C32: the block at position i of the chain (counted from 0) has index i,
\* get_latest_block returns the block of the highest index, and a call that
\* lengthens the chain leaves get_latest_block at the block it appended.
Thm_C32 ==
  /\ [](/\ \A i \in 1..Len(chain) : chain[i].index = i - 1
        /\ get_latest_block(self).index = Len(chain) - 1)
  /\ [][Len(chain') > Len(chain)
          => /\ result'.op \in {"add_block", "mine_pending_transactions"}
             /\ chain' = Append(chain, get_latest_block(self'))]_vars

\* a chain of three blocks whose latest block was appended by add_block after
\* a block mined from the pool
W_C32 ==
  /\ Len(chain) = 3
  /\ result = Called("add_block", "ok")
  /\ chain[2].transactions # None
  /\ get_latest_block(self).transactions = None

\* the hash of block b at nonce m has the leading zeros of b's difficulty
MeetsTarget(b, m) ==
  LET h == Block_calculate_hash([b EXCEPT !.nonce = m])
  IN Prefix(h, b.difficulty) = Zeros(b.difficulty)

Thm_C34 ==
  /\ [](\A j \in 1..Len(pending_transactions) :
          LET tx == pending_transactions[j]
          IN tx.sender # "System"
               => TxFold(get_balance(self, tx.sender, FALSE),
                         SubSeq(pending_transactions, 1, j - 1), tx.sender) >= tx.amount)
  /\ [][(result'.op = "mine_pending_transactions" /\ Len(chain') > Len(chain))
          => /\ SubSeq(get_latest_block(self').transactions[1], 1, Len(pending_transactions))
                  = pending_transactions
             /\ validate_block_transactions(self', get_latest_block(self'))]_vars

\* a block mined from a pool of two, the first of them a transfer of Alice
\* that took all she owned
W_C34 ==
  /\ result = Called("mine_pending_transactions", "ok")
  /\ Len(get_latest_block(self).transactions[1]) = 3
  /\ get_latest_block(self).transactions[1][1].sender = "Alice"
  /\ get_balance(self, "Alice", FALSE) <= 0

RECURSIVE ChainTransactions(_)
\* the transactions of the transaction blocks, in chain order
ChainTransactions(blocks) ==
  IF blocks = <<>> THEN <<>>
  ELSE (IF Head(blocks).transactions = None THEN <<>> ELSE Head(blocks).transactions[1])
         \o ChainTransactions(Tail(blocks))

\* every transaction the ledger holds, once per place: the committed ones in
\* chain order, then the pool
AllTransactions(bc) == ChainTransactions(bc.chain) \o bc.pending_transactions

\* C35: no call removes, moves or doubles a transaction: the committed
\* transactions followed by the pool stay as they are, but for the
\* transaction that an accepted create_transaction appends to the pool and
\* the reward that a successful mining call appends to its block; a
\* successful mining call moves the whole pool into the new block and a
\* failed one moves nothing.
Thm_C35 ==
  [][/\ ChainTransactions(chain) = SubSeq(ChainTransactions(chain'), 1,
                                           Len(ChainTransactions(chain)))
     /\ IF result' = Called("create_transaction", "ok")
        THEN /\ chain' = chain
             /\ Len(pending_transactions') = Len(pending_transactions) + 1
             /\ SubSeq(pending_transactions', 1, Len(pending_transactions))
                  = pending_transactions
        ELSE IF result' = Called("mine_pending_transactions", "ok")
        THEN /\ pending_transactions' = <<>>
             /\ Len(AllTransactions(self')) = Len(AllTransactions(self)) + 1
             /\ SubSeq(AllTransactions(self'), 1, Len(AllTransactions(self)))
                  = AllTransactions(self)
             /\ AllTransactions(self')[Len(AllTransactions(self'))].sender = "System"
        ELSE AllTransactions(self') = AllTransactions(self)
               /\ pending_transactions' = pending_transactions]_vars

\* a failed mining call on a pool of two transactions, after another pool
\* was mined into a block
W_C35 ==
  /\ result = Called("mine_pending_transactions", "MiningError")
  /\ Len(pending_transactions) = 2
  /\ HasMinedPool

\* the step is the end of a mining call, which the transactions held before
\* it outlive: they and the reward are the transactions held after it
MinedWithoutLoss ==
  (result'.op = "mine_pending_transactions" /\ Len(chain') > Len(chain))
    => /\ Len(AllTransactions(self')) = Len(AllTransactions(self)) + 1
       /\ SubSeq(AllTransactions(self'), 1, Len(AllTransactions(self)))
            = AllTransactions(self)

\* C36 as stated: also without serialization, every transaction of the pool
\* is in the mined block or in the pool when the mining call has completed.
CE_C36 == [][MinedWithoutLoss]_vars

\* C36, amended: with serialized callers a mining call loses no transaction;
\* in general the mined block holds the pool as it was when the block was
\* built, followed by the reward, and the pool is empty after the call, so
\* the transactions appended to the pool in between are dropped.
Thm_C36 ==
  [][/\ calls.serialized => MinedWithoutLoss
     /\ (result'.op = "mine_pending_transactions" /\ Len(chain') > Len(chain))
          => /\ pending_transactions' = <<>>
             /\ \E th \in Mining : chain' = Append(chain, calls.running[th][1])
     /\ \A th \in Threads :
          (calls.running[th] = None /\ calls'.running[th] # None
             /\ "index" \in DOMAIN calls'.running[th][1])
            => /\ Len(calls'.running[th][1].transactions[1])
                    = Len(pending_transactions) + 1
               /\ SubSeq(calls'.running[th][1].transactions[1], 1,
                         Len(pending_transactions)) = pending_transactions
               /\ pending_transactions' = pending_transactions]_vars

\* a block mined from a pool of one while create_transaction has appended
\* another transaction to the pool: the mining call is about to complete
W_C36 ==
  /\ ~calls.serialized
  /\ result = Called("create_transaction", "ok")
  /\ \E th \in Mining :
        /\ Len(calls.running[th][1].transactions[1]) = 2
        /\ Len(pending_transactions) = 2
        /\ Len(chain) < MaxChain

\* C37: a mine_pending_transactions call that fails after the empty-pool
\* and miner-address checks leaves the difficulty of the ledger as it was
\* before the call, also when the chain length is at an adjustment boundary.
CE_C37 ==
  [][(result' = Called("mine_pending_transactions", "MiningError"))
       => difficulty' = difficulty]_vars

\* C38: with adjustment_interval >= 1 and target_block_time > 0
\* adjust_difficulty returns a difficulty without raising at every chain
\* length, and add_block appends a block.
CE_C38 ==
  (adjustment_interval >= 1 /\ target_block_time > 0)
    => /\ adjust_difficulty(self).exc = "ok"
       /\ \A data \in LegacyValues, elapsed \in BlockTimes :
            (Len(chain) < MaxChain /\ MiningTerminates(adjust_difficulty(self).val))
              => Len(add_block(self, data, now + elapsed).bc.chain) = Len(chain) + 1

IsDigit(t) == \E d \in 1..10 : Digits[d] = t

RECURSIVE Pow10(_)
Pow10(k) == IF k = 0 THEN 1 ELSE 10 * Pow10(k - 1)

\* int(s[-1] + str(n)) for a string s that ends with a digit
DigitBefore(s, n) == TokCode(s[Len(s)]) * Pow10(Len(IntStr(n))) + n

\* what an outside writer may make of block b by assigning to its index,
\* previous_hash and nonce: the next index, a previous_hash without its last
\* character or the one of a genesis block, the next nonce or the nonce with
\* the last character of previous_hash put before it
FieldMutations(b) ==
  {[b EXCEPT !.index = i, !.previous_hash = p, !.nonce = n] :
      i \in {b.index, b.index + 1},
      p \in {b.previous_hash, <<"0">>, SubSeq(b.previous_hash, 1, Len(b.previous_hash) - 1)},
      n \in {b.nonce, b.nonce + 1} \cup
            (IF IsDigit(b.previous_hash[Len(b.previous_hash)])
             THEN {DigitBefore(b.previous_hash, b.nonce)} ELSE {})}
    \ {b}

\* C39: two blocks that differ in index, timestamp, payload, previous_hash
\* or nonce never have the same digest input, so no assignment to these
\* fields of a committed block leaves its recomputed hash equal to the
\* stored hash.
CE_C39 ==
  \A i \in 1..Len(chain) : \A m \in FieldMutations(chain[i]) :
     Block_calculate_hash(m) # chain[i].hash

\* block.difficulty = d on the block at place i
WithDifficulty(bc, i, d) == [bc EXCEPT !.chain[i].difficulty = d]

\* C40: on a valid ledger, changing the recorded difficulty of a committed
\* block, in particular lowering it down to 0, makes is_chain_valid()
\* return False.
CE_C40 ==
  is_chain_valid(self)
    => \A i \in 1..Len(chain) : \A d \in 0..MaxLeadingZeros :
          d # chain[i].difficulty => ~is_chain_valid(WithDifficulty(self, i, d))

====
